---------------------------- MODULE Spec2Model ----------------------------
(***************************************************************************)
(* A model of the ViewSB capture-to-display pipeline:                      *)
(*   - ViewSBFrontend (src/viewsb/frontend.py): the polling loop that      *)
(*     drains the data queue and observes the termination event;           *)
(*   - OpenVizslaBackend and ViewSBEventSink                               *)
(*     (src/viewsb/backends/openvizsla.py): the device life cycle of       *)
(*     run(), the event sink's filtering, and argument parsing.            *)
(*                                                                         *)
(* Python values are encoded as integers: a packet object is a number in   *)
(* 0..NumPackets, where packet 0 stands for an object whose truth value is *)
(* false (bool(packet) == False); None, True and False are the negative    *)
(* numbers below.                                                          *)
(***************************************************************************)
EXTENDS Integers, Sequences, FiniteSets, TLC

\* ------------------------------------------------------------------ bounds
MaxPush    == 3     \* packets a recorded producer pushes in one run
MaxClasses == 2      \* classes defined under the role class
NumPackets == 2     \* packet objects are 0..NumPackets
QueueCap   == 2     \* capacity of the data queue
MaxEvents  == 3     \* raw events the capture device delivers in one run
MaxRawLen  == 1     \* longest raw payload of an event, in bytes
MaxArgs    == 2     \* longest token sequence given as args or as sys.argv[1:]

\* ---------------------------------------------------------- python values
PyNone  == -1
PyTrue  == -2
PyFalse == -3

Packets == 0 .. NumPackets

\* bool(v), as `while packet` and `if not packet` evaluate it.
Truthy(v) == v = PyTrue \/ v > 0

VARIABLES
    \* ---- shared IPC primitives (set_up_ipc)
    data_queue,          \* self.data_queue: FIFO of packets
    termination_event,   \* self.termination_event.is_set()
    \* ---- the producer feeding the data queue
    pushed,              \* history: every packet put on the queue, in order
    late_push,           \* history: a packet was put after the event was set
    \* ---- ViewSBFrontend.run()
    pc,                  \* position of the frontend in run()
    packet,              \* local `packet` of handle_communications
    handled,             \* history: arguments of handle_incoming_packet
    recording,           \* TRUE: a subclass overriding the handle_* hooks
                         \* (records its packets, may raise);
                         \* FALSE: the base class, whose hooks are `pass`
    termination_calls,   \* number of calls of handle_termination
    raised_in,           \* which call raised out of run(), or "none"
    waited,              \* how long the last queue read waited, in ms
    \* ---- OpenVizslaBackend.run() and its ViewSBEventSink
    bpc,                 \* position of the backend in run()
    device_calls,        \* history: the calls made on self.ov_device, in order
    pending_exc,         \* the exception in flight while the finally block runs
    propagated,          \* the call whose exception left run(), or "none"
    suppress_packet_callback,   \* the sink's suppression callback
    events,              \* history: the raw events the device delivered
    emitted,             \* history: arguments of backend.emit_packet
    \* ---- parse_arguments and the construction that follows it
    plugin,              \* the class whose parse_arguments is called
    args,                \* the `args` parameter of parse_arguments
    sys_argv,            \* sys.argv[1:] of the process
    apc,                 \* "call", "parsed", "exited" or "constructed"
    parsed_args,         \* the returned tuple of constructor arguments
    leftover_args,       \* the returned leftover tokens
    exit_code,           \* the code of sys.exit, or None
    stderr_written,      \* a message was written to sys.stderr
    device_constructed,  \* OVDevice() was called by __init__
    \* ---- ViewSBEnumerableFromUI: the classes of one role and their queries
    classes,             \* the subclasses defined so far, in definition order
    driver_installed,    \* the optional driver library can be imported now
    sink_defined,        \* 'ViewSBEventSink' in globals() of openvizsla.py
    query,               \* last all_named_subclasses / get_subclass_from_name
    asked,               \* last reason_to_be_disabled / available_on_system
    gen,                 \* the generator being consumed
    last                 \* the generator that was consumed before it

fvars == <<data_queue, termination_event, pushed, late_push, pc, packet,
           handled, recording, termination_calls, raised_in, waited>>

bvars == <<bpc, device_calls, pending_exc, propagated,
           suppress_packet_callback, events, emitted>>

avars == <<plugin, args, sys_argv, apc, parsed_args, leftover_args,
           exit_code, stderr_written, device_constructed>>

rvars == <<classes, driver_installed, sink_defined, query, asked, gen, last>>

notFrontend == <<bvars, avars, rvars>>
notBackend  == <<fvars, avars, rvars>>
notArgs     == <<fvars, bvars, rvars>>
notRegistry == <<fvars, bvars, avars>>

vars == <<fvars, bvars, avars, rvars>>

\* ---------------------------------------------------------------- helpers
RECURSIVE IsSubseq(_, _)
\* s can be obtained from t by deleting elements: an order-preserving,
\* one-to-one assignment of the positions of s to positions of t.
IsSubseq(s, t) ==
    IF s = <<>> THEN TRUE
    ELSE IF t = <<>> THEN FALSE
    ELSE IF Head(s) = Head(t) THEN IsSubseq(Tail(s), Tail(t))
    ELSE IsSubseq(s, Tail(t))

Distinct(s) == \A i, j \in 1 .. Len(s) : i # j => s[i] # s[j]

\* ------------------------------------------------------------ the frontend
\* A mutation of read_packet: takes the newest item instead of the oldest.
read_packet_lifo(q) ==
    IF q = <<>>
    THEN [exc |-> "Empty", value |-> PyNone, queue |-> q]
    ELSE [exc |-> "none", value |-> q[Len(q)], queue |-> SubSeq(q, 1, Len(q) - 1)]

\* read_packet(blocking=False, timeout=...): data_queue.get(False, timeout):
\* a non-blocking get, which removes and returns the oldest item or raises
\* queue.Empty at once.
read_packet(q) ==
    IF q = <<>>
    THEN [exc |-> "Empty", value |-> PyNone, queue |-> q]
    ELSE [exc |-> "none", value |-> Head(q), queue |-> Tail(q)]

\* PACKET_READ_TIMEOUT = 0.01 seconds, in milliseconds.
PACKET_READ_TIMEOUT == 10

\* How long data_queue.get(block, timeout) waits before it returns or raises:
\* it waits for an item only when block is true; with block false the
\* timeout is ignored and an empty queue raises queue.Empty at once.
queue_get_wait(q, block, timeout) ==
    IF block /\ q = <<>> THEN timeout ELSE 0

\* fetch_packet_from_analyzer: queue.Empty becomes a return of None.
fetch_packet_from_analyzer(q) ==
    LET r == read_packet(q)
    IN  IF r.exc = "Empty"
        THEN [value |-> PyNone, queue |-> r.queue]
        ELSE [value |-> r.value, queue |-> r.queue]

\* A mutation of RunLoop: leaves the loop while the event is NOT set.
RunLoop_inverted ==
    /\ pc = "run"
    /\ IF ~termination_event
       THEN pc' = "terminate" /\ UNCHANGED packet
       ELSE pc' = "fetch" /\ packet' = PyTrue
    /\ UNCHANGED <<data_queue, termination_event, pushed, late_push, handled,
                   recording, termination_calls, raised_in>>
    /\ UNCHANGED waited
    /\ UNCHANGED notFrontend

\* A mutation of RunLoop: clears the event when it leaves the loop.
RunLoop_clears_event ==
    /\ pc = "run"
    /\ IF termination_event
       THEN pc' = "terminate" /\ termination_event' = FALSE /\ UNCHANGED packet
       ELSE pc' = "fetch" /\ packet' = PyTrue /\ UNCHANGED termination_event
    /\ UNCHANGED <<data_queue, pushed, late_push, handled,
                   recording, termination_calls, raised_in>>
    /\ UNCHANGED waited
    /\ UNCHANGED notFrontend

\* run(), line 222: `while not self.termination_event.is_set()`; when not set
\* it enters handle_communications (packet = True; while packet).
RunLoop ==
    /\ pc = "run"
    /\ IF termination_event
       THEN pc' = "terminate" /\ UNCHANGED packet
       ELSE pc' = "fetch" /\ packet' = PyTrue
    /\ UNCHANGED <<data_queue, termination_event, pushed, late_push, handled,
                   recording, termination_calls, raised_in>>
    /\ UNCHANGED waited
    /\ UNCHANGED notFrontend

\* handle_communications, lines 209-213: fetch, then `if not packet: break`,
\* which returns to the loop of run().
FetchPacket ==
    /\ pc = "fetch"
    /\ LET r == fetch_packet_from_analyzer(data_queue)
       IN  /\ packet' = r.value
           /\ data_queue' = r.queue
           /\ pc' = IF ~Truthy(r.value) THEN "run" ELSE "handle"
    /\ UNCHANGED <<termination_event, pushed, late_push, handled, recording,
                   termination_calls, raised_in>>
    /\ waited' = queue_get_wait(data_queue, FALSE, PACKET_READ_TIMEOUT)
    /\ UNCHANGED notFrontend

\* The queue read raises something other than queue.Empty (a broken pipe, a
\* failed unpickle): nothing in run() catches it.
FetchRaises ==
    /\ pc = "fetch"
    /\ pc' = "raised"
    /\ raised_in' = "read_packet"
    /\ UNCHANGED <<data_queue, termination_event, pushed, late_push, packet,
                   handled, recording, termination_calls>>
    /\ UNCHANGED waited
    /\ UNCHANGED notFrontend

\* handle_communications, line 215, then the loop test of line 206.
HandleIncomingPacket ==
    /\ pc = "handle"
    /\ handled' = IF recording THEN Append(handled, packet) ELSE handled
    /\ pc' = IF Truthy(packet) THEN "fetch" ELSE "run"
    /\ UNCHANGED <<data_queue, termination_event, pushed, late_push, packet,
                   recording, termination_calls, raised_in>>
    /\ UNCHANGED waited
    /\ UNCHANGED notFrontend

\* An overriding handle_incoming_packet raises: nothing in run() catches it.
HandleIncomingRaises ==
    /\ pc = "handle"
    /\ recording
    /\ handled' = Append(handled, packet)
    /\ pc' = "raised"
    /\ raised_in' = "handle_incoming_packet"
    /\ UNCHANGED <<data_queue, termination_event, pushed, late_push, packet,
                   recording, termination_calls>>
    /\ UNCHANGED waited
    /\ UNCHANGED notFrontend

\* run(), line 226: the cleanup hook, after the loop.
HandleTermination ==
    /\ pc = "terminate"
    /\ termination_calls' = termination_calls + 1
    /\ pc' = "done"
    /\ UNCHANGED <<data_queue, termination_event, pushed, late_push, packet,
                   handled, recording, raised_in>>
    /\ UNCHANGED waited
    /\ UNCHANGED notFrontend

\* An overriding handle_termination raises.
HandleTerminationRaises ==
    /\ pc = "terminate"
    /\ recording
    /\ termination_calls' = termination_calls + 1
    /\ pc' = "raised"
    /\ raised_in' = "handle_termination"
    /\ UNCHANGED <<data_queue, termination_event, pushed, late_push, packet,
                   handled, recording>>
    /\ UNCHANGED waited
    /\ UNCHANGED notFrontend

\* ------------------------------------------------------------- the backend
Bytes == {0, 1}

\* The raw payloads a capture event can carry: byte strings up to MaxRawLen.
RawPackets == UNION {[1 .. n -> Bytes] : n \in 0 .. MaxRawLen}

\* The values a caller passes as suppress_packet_callback:
\*   "absent"       None, the default
\*   "not_callable" a value that is not callable (a string, say)
\*   "suppress_all" lambda packet: True
\*   "suppress_none" lambda packet: False
\*   "returns_none" a function that returns None
\*   "suppress_odd" lambda packet: packet.timestamp % 2   (returns 0 or 1)
Callbacks == {"absent", "not_callable", "suppress_all", "suppress_none",
              "returns_none", "suppress_odd"}

\* callable(self.suppress_packet_callback)
callable(cb) ==
    cb \in {"suppress_all", "suppress_none", "returns_none", "suppress_odd"}

\* self.suppress_packet_callback(packet), for a callable callback.
call_callback(cb, pkt) ==
    CASE cb = "suppress_all"  -> PyTrue
      [] cb = "suppress_none" -> PyFalse
      [] cb = "returns_none"  -> PyNone
      [] cb = "suppress_odd"  -> pkt.timestamp % 2

\* USBPacket.from_raw_packet(raw_packet, timestamp=timestamp): the packet
\* built from the payload and the capture timestamp.
from_raw_packet(raw_packet, timestamp) ==
    [raw |-> raw_packet, timestamp |-> timestamp]

\* A mutation of should_be_suppressed: without a callable callback, suppress.
should_be_suppressed_default_true(cb, pkt) ==
    IF callable(cb) THEN call_callback(cb, pkt) ELSE PyTrue

\* ViewSBEventSink._should_be_suppressed
should_be_suppressed(cb, pkt) ==
    IF callable(cb) THEN call_callback(cb, pkt) ELSE PyFalse

\* A mutation of handle_usb_packet: the check for an empty payload is missing.
handle_usb_packet_unfiltered(cb, timestamp, raw_packet, flags) ==
    LET pkt == from_raw_packet(raw_packet, timestamp)
    IN  IF ~Truthy(should_be_suppressed(cb, pkt)) THEN <<pkt>> ELSE <<>>

\* ViewSBEventSink.handle_usb_packet: the calls of backend.emit_packet which
\* one raw event causes, as the sequence of their arguments.
handle_usb_packet(cb, timestamp, raw_packet, flags) ==
    IF Len(raw_packet) = 0
    THEN <<>>
    ELSE LET pkt == from_raw_packet(raw_packet, timestamp)
         IN  IF ~Truthy(should_be_suppressed(cb, pkt)) THEN <<pkt>> ELSE <<>>

\* halt_callback = lambda _ : self.termination_event.is_set()
halt_callback(event) == event

\* run(), line 141: self.ov_device.open(reconfigure_fpga=True), outside the try.
DeviceOpen ==
    /\ bpc = "open"
    /\ device_calls' = Append(device_calls, "open")
    /\ bpc' = "run_capture"
    /\ UNCHANGED <<pending_exc, propagated, suppress_packet_callback, events,
                   emitted>>
    /\ UNCHANGED notBackend

\* A mutation of DeviceOpenRaises: open() inside the try, so that its failure
\* runs the finally block.
DeviceOpenRaises_in_try ==
    /\ bpc = "open"
    /\ device_calls' = Append(device_calls, "open")
    /\ bpc' = "ensure_capture_stopped"
    /\ pending_exc' = "open"
    /\ UNCHANGED <<propagated, suppress_packet_callback, events, emitted>>
    /\ UNCHANGED notBackend

\* open() raises: the exception leaves run() at once.
DeviceOpenRaises ==
    /\ bpc = "open"
    /\ device_calls' = Append(device_calls, "open")
    /\ bpc' = "raised"
    /\ propagated' = "open"
    /\ UNCHANGED <<pending_exc, suppress_packet_callback, events, emitted>>
    /\ UNCHANGED notBackend

\* run(), line 145: run_capture is called and starts capturing.
StartCapture ==
    /\ bpc = "run_capture"
    /\ device_calls' = Append(device_calls, "run_capture")
    /\ bpc' = "capturing"
    /\ UNCHANGED <<pending_exc, propagated, suppress_packet_callback, events,
                   emitted>>
    /\ UNCHANGED notBackend

\* While capturing, the device hands a raw event to the registered sink.
SinkEvent(raw_packet) ==
    /\ bpc = "capturing"
    /\ Len(events) < MaxEvents
    /\ LET timestamp == Len(events) + 1
           flags == 0
       IN  /\ events' = Append(events, [timestamp |-> timestamp,
                                        raw_packet |-> raw_packet,
                                        flags |-> flags])
           /\ emitted' = emitted \o handle_usb_packet(suppress_packet_callback,
                                                      timestamp, raw_packet, flags)
    /\ UNCHANGED <<bpc, device_calls, pending_exc, propagated,
                   suppress_packet_callback>>
    /\ UNCHANGED notBackend

\* run_capture polls the halt callback and returns once it answers true.
CaptureReturns ==
    /\ bpc = "capturing"
    /\ halt_callback(termination_event)
    /\ bpc' = "ensure_capture_stopped"
    /\ UNCHANGED <<device_calls, pending_exc, propagated,
                   suppress_packet_callback, events, emitted>>
    /\ UNCHANGED notBackend

\* run_capture raises, at any point of the capture: the finally block runs
\* with the exception pending.
CaptureRaises ==
    /\ bpc = "capturing"
    /\ pending_exc' = "run_capture"
    /\ bpc' = "ensure_capture_stopped"
    /\ UNCHANGED <<device_calls, propagated, suppress_packet_callback, events,
                   emitted>>
    /\ UNCHANGED notBackend

\* run(), line 148, first statement of the finally block.
EnsureCaptureStopped ==
    /\ bpc = "ensure_capture_stopped"
    /\ device_calls' = Append(device_calls, "ensure_capture_stopped")
    /\ bpc' = "close"
    /\ UNCHANGED <<pending_exc, propagated, suppress_packet_callback, events,
                   emitted>>
    /\ UNCHANGED notBackend

\* ensure_capture_stopped() raises: the finally block is left at once, and
\* its exception replaces the pending one.
EnsureCaptureStoppedRaises ==
    /\ bpc = "ensure_capture_stopped"
    /\ device_calls' = Append(device_calls, "ensure_capture_stopped")
    /\ bpc' = "raised"
    /\ propagated' = "ensure_capture_stopped"
    /\ UNCHANGED <<pending_exc, suppress_packet_callback, events, emitted>>
    /\ UNCHANGED notBackend

\* run(), line 149, then the end of the finally block: the pending exception,
\* if any, is raised again.
DeviceClose ==
    /\ bpc = "close"
    /\ device_calls' = Append(device_calls, "close")
    /\ IF pending_exc = "none"
       THEN bpc' = "returned" /\ UNCHANGED propagated
       ELSE bpc' = "raised" /\ propagated' = pending_exc
    /\ UNCHANGED <<pending_exc, suppress_packet_callback, events, emitted>>
    /\ UNCHANGED notBackend

\* close() raises: its exception replaces the pending one.
DeviceCloseRaises ==
    /\ bpc = "close"
    /\ device_calls' = Append(device_calls, "close")
    /\ bpc' = "raised"
    /\ propagated' = "close"
    /\ UNCHANGED <<pending_exc, suppress_packet_callback, events, emitted>>
    /\ UNCHANGED notBackend

\* ------------------------------------------------------- argument parsing
\* The tokens of the model's command lines.  "--sp" is an abbreviation of
\* --speed, which argparse accepts (allow_abbrev); "-v" is an option and
\* "bogus" a word that no plugin declares.
Tokens == {"--speed", "--sp", "high", "full", "low", "bogus", "-v"}

TokenSeqs == UNION {[1 .. n -> Tokens] : n \in 0 .. MaxArgs}

\* The option strings that select the --speed argument of the parser.
SpeedOptionStrings == {"--speed", "--sp"}

\* A token argparse takes for an option, not for an option's value.
OptionLike(tok) == tok \in {"--speed", "--sp", "-v"}

\* The members of OVCaptureUSBSpeed.
OVCaptureUSBSpeed_HIGH == 1
OVCaptureUSBSpeed_FULL == 2
OVCaptureUSBSpeed_LOW  == 3

\* errno.EINVAL, and the exit status of argparse's parser.error().
EINVAL == 22
ArgparseErrorStatus == 2

\* OpenVizslaBackend.speed_from_string: the table lookup, None on KeyError.
speed_from_string(string) ==
    CASE string = "high" -> OVCaptureUSBSpeed_HIGH
      [] string = "full" -> OVCaptureUSBSpeed_FULL
      [] string = "low"  -> OVCaptureUSBSpeed_LOW
      [] OTHER           -> PyNone

RECURSIVE parse_known_scan(_, _, _, _)
\* argparse's left-to-right scan of parse_known_args for a parser whose only
\* argument is --speed (one value, type=speed_from_string): the option takes
\* the next token as its value unless there is none or it looks like an
\* option, which is parser.error(); every other token is an extra.
parse_known_scan(toks, seen, speed, extras) ==
    IF toks = <<>>
    THEN [error |-> FALSE,
          \* the string default 'high' goes through `type` when --speed is absent
          speed |-> IF seen THEN speed ELSE speed_from_string("high"),
          extras |-> extras]
    ELSE IF Head(toks) \in SpeedOptionStrings
    THEN IF Len(toks) >= 2 /\ ~OptionLike(toks[2])
         THEN parse_known_scan(SubSeq(toks, 3, Len(toks)), TRUE,
                               speed_from_string(toks[2]), extras)
         ELSE [error |-> TRUE, speed |-> PyNone, extras |-> extras]
    ELSE parse_known_scan(Tail(toks), seen, speed, Append(extras, Head(toks)))

\* parser.parse_known_args(argument_list)
parse_known_args(argument_list) ==
    parse_known_scan(argument_list, FALSE, PyNone, <<>>)

\* What OpenVizslaBackend.parse_arguments does with the token list that its
\* parser reads.
ParseOutcome(argument_list) ==
    LET r == parse_known_args(argument_list)
    IN  IF r.error
        THEN [apc |-> "exited", parsed_args |-> <<>>, leftover_args |-> <<>>,
              exit_code |-> ArgparseErrorStatus, stderr_written |-> TRUE]
        ELSE IF r.speed = PyNone
        THEN [apc |-> "exited", parsed_args |-> <<>>, leftover_args |-> <<>>,
              exit_code |-> EINVAL, stderr_written |-> TRUE]
        ELSE [apc |-> "parsed", parsed_args |-> <<r.speed>>,
              leftover_args |-> r.extras,
              exit_code |-> PyNone, stderr_written |-> FALSE]

\* OpenVizslaBackend.parse_arguments(args): line 105 calls
\* parser.parse_known_args() without an argument list, so the parser reads
\* sys.argv[1:] and the `args` parameter is never used.
ParseArgumentsOpenVizsla ==
    /\ apc = "call"
    /\ plugin = "openvizsla"
    /\ LET out == ParseOutcome(sys_argv)
       IN  /\ apc' = out.apc
           /\ parsed_args' = out.parsed_args
           /\ leftover_args' = out.leftover_args
           /\ exit_code' = out.exit_code
           /\ stderr_written' = out.stderr_written
    /\ UNCHANGED <<plugin, args, sys_argv, device_constructed>>
    /\ UNCHANGED notArgs

\* ViewSBEnumerableFromUI.parse_arguments(args): return ((), args)
ParseArgumentsBase ==
    /\ apc = "call"
    /\ plugin = "base"
    /\ apc' = "parsed"
    /\ parsed_args' = <<>>
    /\ leftover_args' = args
    /\ UNCHANGED <<plugin, args, sys_argv, exit_code, stderr_written,
                   device_constructed>>
    /\ UNCHANGED notArgs

\* The caller constructs the plugin from the parsed tuple; the OpenVizsla
\* backend's __init__ creates the OVDevice.
Construct ==
    /\ apc = "parsed"
    /\ apc' = "constructed"
    /\ device_constructed' = (plugin = "openvizsla")
    /\ UNCHANGED <<plugin, args, sys_argv, parsed_args, leftover_args,
                   exit_code, stderr_written>>
    /\ UNCHANGED notArgs

\* -------------------------------------------------- the plugin registry
\* The role class itself (ViewSBEnumerableFromUI, ViewSBFrontend, ...); the
\* classes defined under it are 1 .. Len(classes), a parent before its
\* children.
RoleClass == 0

\* Python's None as the value of UI_NAME and of reason_to_be_disabled().
NoName == "<None>"
NoReason == "<None>"

\* The class body does not set the attribute or method: lookup goes on in
\* the parent class.
Inherit == "<inherited>"

\* What a class body can say about UI_NAME.
OwnNames == {Inherit, NoName, "", "alpha", "Alpha"}

\* Names that are looked up.
LookupNames == {NoName, "", "alpha", "Alpha", "beta"}

\* What a class body can say about reason_to_be_disabled: nothing, the check
\* of OpenVizslaBackend, or a check that probes the system when it is called.
ReasonImpls == {Inherit, "openvizsla", "probe"}

\* subclass.UI_NAME: attribute lookup through the parents; the role class
\* has UI_NAME = None.
RECURSIVE UI_NAME(_, _)
UI_NAME(reg, c) ==
    IF c = RoleClass THEN NoName
    ELSE IF reg[c].ui_name = Inherit THEN UI_NAME(reg, reg[c].parent)
    ELSE reg[c].ui_name

\* `if subclass.UI_NAME`: None and the empty string are false.
NameIsTrue(name) == name \notin {NoName, ""}

\* cls.__subclasses__(): the direct subclasses.
subclasses_of(reg, cls) == {d \in 1 .. Len(reg) : reg[d].parent = cls}

\* A mutation of all_named_subclasses: the subclasses of an unnamed class
\* are not explored.
RECURSIVE all_named_subclasses_named_only(_, _)
all_named_subclasses_named_only(reg, cls) ==
    UNION {IF NameIsTrue(UI_NAME(reg, d))
           THEN {d} \cup all_named_subclasses_named_only(reg, d)
           ELSE {} : d \in subclasses_of(reg, cls)}

\* all_named_subclasses(): each direct subclass if it is named, and all of
\* that subclass's named subclasses.
RECURSIVE all_named_subclasses(_, _)
all_named_subclasses(reg, cls) ==
    UNION {(IF NameIsTrue(UI_NAME(reg, d)) THEN {d} ELSE {})
           \cup all_named_subclasses(reg, d) : d \in subclasses_of(reg, cls)}

\* str.lower() on the names of the model.
Lower(name) == IF name = "Alpha" THEN "alpha" ELSE name

\* A mutation of get_subclass_from_name: the names are compared without
\* regard to case.
get_subclass_from_name_any_case(reg, cls, name) ==
    LET matching == {d \in all_named_subclasses(reg, cls) :
                         Lower(UI_NAME(reg, d)) = Lower(name)}
    IN  IF matching = {} THEN {PyNone} ELSE matching

\* get_subclass_from_name(name): the values the call can return.  The loop
\* returns the first subclass with that UI_NAME in the iteration order of a
\* set, so any of them when there are several; None when the loop ends.
get_subclass_from_name(reg, cls, name) ==
    LET matching == {d \in all_named_subclasses(reg, cls) :
                         UI_NAME(reg, d) = name}
    IN  IF matching = {} THEN {PyNone} ELSE matching

\* Which reason_to_be_disabled a class has: method lookup through the
\* parents; the role class has the default one.
RECURSIVE reason_impl(_, _)
reason_impl(reg, c) ==
    IF c = RoleClass THEN "default"
    ELSE IF reg[c].reason_impl = Inherit THEN reason_impl(reg, reg[c].parent)
    ELSE reg[c].reason_impl

\* cls.reason_to_be_disabled() called now.  The default returns None;
\* OpenVizslaBackend tests a global that was bound, or not, when its module
\* was imported; a probing class tests the system as it is now.
reason_to_be_disabled(c) ==
    CASE reason_impl(classes, c) = "default" -> NoReason
      [] reason_impl(classes, c) = "openvizsla" ->
            IF ~sink_defined
            THEN "pyopenvizsla (openvizsla driver) not available"
            ELSE NoReason
      [] reason_impl(classes, c) = "probe" ->
            IF ~driver_installed THEN "driver not available" ELSE NoReason

\* A mutation of available_on_system: the test is inverted.
available_on_system_inverted(c) == reason_to_be_disabled(c) # NoReason

\* available_on_system(): `cls.reason_to_be_disabled() is None`.
available_on_system(c) == reason_to_be_disabled(c) = NoReason

NoQuery ==
    [op |-> "none", cls |-> RoleClass, name |-> NoName, found |-> {},
     returned |-> PyNone, size |-> 0, prior |-> PyNone]

NoAsk ==
    [op |-> "none", cls |-> RoleClass, reason |-> NoReason,
     available |-> TRUE, installed |-> FALSE]

NoGen ==
    [kind |-> "none", pending |-> {}, current |-> PyNone, yielded |-> {},
     pairs |-> {}, disturbed |-> FALSE]

\* The generator has yielded all it will yield.
Exhausted(g) == g.kind # "none" /\ g.pending = {} /\ g.current = PyNone

\* The registry or the system changes: the generator under way has seen a
\* change, and the earlier generator no longer belongs to the present state.
Disturb ==
    /\ gen' = IF gen.kind = "none" THEN gen ELSE [gen EXCEPT !.disturbed = TRUE]
    /\ last' = NoGen

\* A class statement: a new subclass of the role class or of a class defined
\* before, with or without a UI_NAME and a reason_to_be_disabled of its own.
DefineClass(parent, name, impl) ==
    /\ Len(classes) < MaxClasses
    /\ parent \in 0 .. Len(classes)
    /\ classes' = Append(classes, [parent |-> parent, ui_name |-> name,
                                   reason_impl |-> impl])
    /\ Disturb
    /\ UNCHANGED <<driver_installed, sink_defined, query, asked>>
    /\ UNCHANGED notRegistry

\* The import of backends/openvizsla.py: ViewSBEventSink is defined only if
\* `from openvizsla import ...` succeeds, then OpenVizslaBackend is defined
\* with UI_NAME = "openvizsla" under the role class.
ImportOpenVizslaModule ==
    /\ Len(classes) < MaxClasses
    /\ \A c \in 1 .. Len(classes) : classes[c].reason_impl # "openvizsla"
    /\ sink_defined' = driver_installed
    /\ classes' = Append(classes, [parent |-> RoleClass,
                                   ui_name |-> "openvizsla",
                                   reason_impl |-> "openvizsla"])
    /\ Disturb
    /\ UNCHANGED <<driver_installed, query, asked>>
    /\ UNCHANGED notRegistry

\* The system changes: the driver library is installed or removed.
ToggleDriver ==
    /\ driver_installed' = ~driver_installed
    /\ Disturb
    /\ UNCHANGED <<classes, sink_defined, query, asked>>
    /\ UNCHANGED notRegistry

\* A call of cls.all_named_subclasses().
Discover(cls) ==
    /\ cls \in 0 .. Len(classes)
    /\ query' = [op |-> "discover", cls |-> cls, name |-> NoName,
                 found |-> all_named_subclasses(classes, cls),
                 returned |-> PyNone, size |-> Len(classes),
                 prior |-> IF query.op = "discover" /\ query.cls = cls
                           THEN query.size ELSE PyNone]
    /\ UNCHANGED <<classes, driver_installed, sink_defined, asked, gen, last>>
    /\ UNCHANGED notRegistry

\* A call of cls.get_subclass_from_name(name).
Lookup(cls, name) ==
    /\ cls \in 0 .. Len(classes)
    /\ \E r \in get_subclass_from_name(classes, cls, name) :
          query' = [op |-> "lookup", cls |-> cls, name |-> name,
                    found |-> {}, returned |-> r, size |-> Len(classes),
                    prior |-> PyNone]
    /\ UNCHANGED <<classes, driver_installed, sink_defined, asked, gen, last>>
    /\ UNCHANGED notRegistry

\* A call of cls.reason_to_be_disabled().
CallReasonToBeDisabled(c) ==
    /\ c \in 1 .. Len(classes)
    /\ asked' = [op |-> "reason", cls |-> c,
                 reason |-> reason_to_be_disabled(c),
                 available |-> (reason_to_be_disabled(c) = NoReason),
                 installed |-> driver_installed]
    /\ UNCHANGED <<classes, driver_installed, sink_defined, query, gen, last>>
    /\ UNCHANGED notRegistry

\* A call of cls.available_on_system().
CallAvailableOnSystem(c) ==
    /\ c \in 1 .. Len(classes)
    /\ asked' = [op |-> "available", cls |-> c, reason |-> NoReason,
                 available |-> available_on_system(c),
                 installed |-> driver_installed]
    /\ UNCHANGED <<classes, driver_installed, sink_defined, query, gen, last>>
    /\ UNCHANGED notRegistry

\* The generator expression is created: its outermost iterable,
\* cls.all_named_subclasses(), is evaluated now, nothing else is.
NewGenerator(kind) ==
    [kind |-> kind,
     pending |-> all_named_subclasses(classes, RoleClass),
     current |-> PyNone, yielded |-> {}, pairs |-> {},
     disturbed |-> FALSE]

\* A call of available_subclasses() on the role class.  The generator that
\* was consumed to its end before is kept beside the new one.
CallAvailableSubclasses ==
    /\ gen' = NewGenerator("available")
    /\ last' = IF Exhausted(gen) /\ ~gen.disturbed THEN gen ELSE NoGen
    /\ UNCHANGED <<classes, driver_installed, sink_defined, query, asked>>
    /\ UNCHANGED notRegistry

\* A call of unavailable_subclasses() on the role class.
CallUnavailableSubclasses ==
    /\ gen' = NewGenerator("unavailable")
    /\ last' = IF Exhausted(gen) /\ ~gen.disturbed THEN gen ELSE NoGen
    /\ UNCHANGED <<classes, driver_installed, sink_defined, query, asked>>
    /\ UNCHANGED notRegistry

\* The generator takes the next subclass of its set and evaluates the `if`
\* of the expression: available_subclasses yields the subclass if
\* available_on_system(); unavailable_subclasses goes on to build its tuple
\* if not available_on_system().
GeneratorTest(d) ==
    /\ gen.kind # "none"
    /\ gen.current = PyNone
    /\ d \in gen.pending
    /\ gen' = IF gen.kind = "available"
              THEN [gen EXCEPT !.pending = @ \ {d},
                               !.yielded = IF available_on_system(d)
                                           THEN @ \cup {d} ELSE @]
              ELSE [gen EXCEPT !.pending = @ \ {d},
                               !.current = IF ~available_on_system(d)
                                           THEN d ELSE PyNone]
    /\ UNCHANGED <<classes, driver_installed, sink_defined, query, asked, last>>
    /\ UNCHANGED notRegistry

\* unavailable_subclasses builds and yields its tuple
\* (subclass, subclass.reason_to_be_disabled()): a second call of
\* reason_to_be_disabled, after the one inside available_on_system.
GeneratorYieldPair ==
    /\ gen.kind = "unavailable"
    /\ gen.current # PyNone
    /\ gen' = [gen EXCEPT !.pairs = @ \cup {<<gen.current,
                                             reason_to_be_disabled(gen.current)>>},
                          !.current = PyNone]
    /\ UNCHANGED <<classes, driver_installed, sink_defined, query, asked, last>>
    /\ UNCHANGED notRegistry

\* ----------------------------------------------------- the other processes
\* The producer puts a packet on the data queue; a put on a full queue blocks.
ProducerPush(p) ==
    /\ Len(pushed) < MaxPush
    /\ Len(data_queue) < QueueCap
    /\ data_queue' = Append(data_queue, p)
    /\ pushed' = Append(pushed, p)
    /\ late_push' = (late_push \/ termination_event)
    /\ UNCHANGED <<termination_event, pc, packet, handled, recording,
                   termination_calls, raised_in>>
    /\ UNCHANGED waited
    /\ UNCHANGED notFrontend

\* A producer that never stops; its pushes are not recorded.
ProducerStream(p) ==
    /\ Len(data_queue) < QueueCap
    /\ data_queue' = Append(data_queue, p)
    /\ UNCHANGED <<termination_event, pushed, late_push, pc, packet, handled,
                   recording, termination_calls, raised_in>>
    /\ UNCHANGED waited
    /\ UNCHANGED notFrontend

\* Any party requests the stop: the event is set.
SetTermination ==
    /\ ~termination_event
    /\ termination_event' = TRUE
    /\ UNCHANGED <<data_queue, pushed, late_push, pc, packet, handled,
                   recording, termination_calls, raised_in>>
    /\ UNCHANGED waited
    /\ UNCHANGED notFrontend

\* ---------------------------------------------------------- specifications
InitFrontend ==
    /\ data_queue = <<>>
    /\ termination_event = FALSE
    /\ pushed = <<>>
    /\ late_push = FALSE
    /\ pc = "run"
    /\ packet = PyNone
    /\ handled = <<>>
    /\ termination_calls = 0
    /\ raised_in = "none"
    /\ waited = 0

\* A backend that was constructed and has not started run().
InitBackend ==
    /\ bpc = "open"
    /\ device_calls = <<>>
    /\ pending_exc = "none"
    /\ propagated = "none"
    /\ events = <<>>
    /\ emitted = <<>>

\* No class is defined under the role class yet and nothing was asked.
InitRegistry ==
    /\ classes = <<>>
    /\ driver_installed = FALSE
    /\ sink_defined = FALSE
    /\ query = NoQuery
    /\ asked = NoAsk
    /\ gen = NoGen
    /\ last = NoGen

\* No parse_arguments call is under way.
InitNoArgs ==
    /\ plugin = "base"
    /\ args = <<>>
    /\ sys_argv = <<>>
    /\ apc = "constructed"
    /\ parsed_args = <<>>
    /\ leftover_args = <<>>
    /\ exit_code = PyNone
    /\ stderr_written = FALSE
    /\ device_constructed = FALSE

Init ==
    /\ InitFrontend
    /\ recording = TRUE
    /\ InitBackend
    /\ suppress_packet_callback = "absent"
    /\ InitNoArgs
    /\ InitRegistry

Next ==
    \/ RunLoop
    \/ FetchPacket
    \/ FetchRaises
    \/ HandleIncomingPacket
    \/ HandleIncomingRaises
    \/ HandleTermination
    \/ HandleTerminationRaises
    \/ \E p \in Packets : ProducerPush(p)
    \/ SetTermination

Spec == Init /\ [][Next]_vars

\* The base-class frontend fed by a producer that never stops.  Both are
\* separate processes, each scheduled again and again: weak fairness of the
\* frontend's next step and of the producer's next push.
InitLive ==
    /\ InitFrontend
    /\ recording = FALSE
    /\ InitBackend
    /\ suppress_packet_callback = "absent"
    /\ InitNoArgs
    /\ InitRegistry

\* The backend's run() on a capture device that may fail in any call, with
\* any suppression callback; the termination event is set by another party.
InitCapture ==
    /\ InitFrontend
    /\ recording = TRUE
    /\ InitBackend
    /\ suppress_packet_callback \in Callbacks
    /\ InitNoArgs
    /\ InitRegistry

NextBackend ==
    \/ DeviceOpen
    \/ DeviceOpenRaises
    \/ StartCapture
    \/ \E raw_packet \in RawPackets : SinkEvent(raw_packet)
    \/ CaptureReturns
    \/ CaptureRaises
    \/ EnsureCaptureStopped
    \/ EnsureCaptureStoppedRaises
    \/ DeviceClose
    \/ DeviceCloseRaises
    \/ SetTermination

SpecBackend == InitCapture /\ [][NextBackend]_vars

\* One call of a plugin's parse_arguments(args), in a process started with
\* any command line, followed by the construction of the plugin.
InitArgs ==
    /\ InitFrontend
    /\ recording = TRUE
    /\ InitBackend
    /\ suppress_packet_callback = "absent"
    /\ plugin \in {"base", "openvizsla"}
    /\ args \in TokenSeqs
    /\ sys_argv \in TokenSeqs
    /\ apc = "call"
    /\ parsed_args = <<>>
    /\ leftover_args = <<>>
    /\ exit_code = PyNone
    /\ stderr_written = FALSE
    /\ device_constructed = FALSE
    /\ InitRegistry

NextArgs ==
    \/ ParseArgumentsOpenVizsla
    \/ ParseArgumentsBase
    \/ Construct

SpecArgs == InitArgs /\ [][NextArgs]_vars

FrontendStep ==
    \/ RunLoop
    \/ FetchPacket
    \/ HandleIncomingPacket
    \/ HandleTermination

ProducerStep == \E p \in Packets : ProducerStream(p)

NextLive ==
    \/ RunLoop
    \/ FetchPacket
    \/ HandleIncomingPacket
    \/ HandleTermination
    \/ \E p \in Packets : ProducerStream(p)
    \/ SetTermination

SpecLive ==
    /\ InitLive
    /\ [][NextLive]_vars
    /\ WF_vars(FrontendStep)
    /\ WF_vars(ProducerStep)

\* The whole pipeline: the base-class frontend and the backend's run() side
\* by side, sharing the termination event, with a producer feeding the data
\* queue and another party setting the event.
NextPipeline ==
    \/ RunLoop
    \/ FetchPacket
    \/ HandleIncomingPacket
    \/ HandleTermination
    \/ DeviceOpen
    \/ DeviceOpenRaises
    \/ StartCapture
    \/ CaptureReturns
    \/ CaptureRaises
    \/ EnsureCaptureStopped
    \/ EnsureCaptureStoppedRaises
    \/ DeviceClose
    \/ DeviceCloseRaises
    \/ \E p \in Packets : ProducerStream(p)
    \/ SetTermination

SpecPipeline == InitLive /\ [][NextPipeline]_vars

\* The classes of one role: classes are defined, with any UI_NAME, under the
\* role class or under one another, and the role's classes are asked for
\* their named subclasses and for a subclass by name.
InitPlugins ==
    /\ InitFrontend
    /\ recording = FALSE
    /\ InitBackend
    /\ suppress_packet_callback = "absent"
    /\ InitNoArgs
    /\ InitRegistry

NextRegistry ==
    \/ \E parent \in 0 .. MaxClasses, name \in OwnNames :
          DefineClass(parent, name, Inherit)
    \/ \E cls \in 0 .. MaxClasses : Discover(cls)
    \/ \E cls \in 0 .. MaxClasses, name \in LookupNames : Lookup(cls, name)

SpecRegistry == InitPlugins /\ [][NextRegistry]_vars

\* Availability: named classes with the default, a probing or the
\* OpenVizsla reason_to_be_disabled, on a system whose driver library comes
\* and goes, asked whether they are available.
NextAvailability ==
    \/ \E parent \in 0 .. MaxClasses, impl \in {Inherit, "probe"} :
          DefineClass(parent, "alpha", impl)
    \/ ImportOpenVizslaModule
    \/ ToggleDriver
    \/ \E c \in 1 .. MaxClasses : CallReasonToBeDisabled(c)
    \/ \E c \in 1 .. MaxClasses : CallAvailableOnSystem(c)

SpecAvailability == InitPlugins /\ [][NextAvailability]_vars

\* Enumeration: the generators of available_subclasses() and
\* unavailable_subclasses() of the role class, consumed step by step while
\* classes are defined and the system changes.
NextEnumerate ==
    \/ \E parent \in 0 .. MaxClasses, name \in {Inherit, "alpha"},
          impl \in {Inherit, "probe"} : DefineClass(parent, name, impl)
    \/ ImportOpenVizslaModule
    \/ ToggleDriver
    \/ CallAvailableSubclasses
    \/ CallUnavailableSubclasses
    \/ \E d \in 1 .. MaxClasses : GeneratorTest(d)
    \/ GeneratorYieldPair

SpecEnumerate == InitPlugins /\ [][NextEnumerate]_vars

\* ------------------------------------------------------------------ claims
\* The part of `pushed` that has left the queue.
Consumed == SubSeq(pushed, 1, Len(pushed) - Len(data_queue))

\* C1: the packets passed to handle_incoming_packet are, in order and each at
\* most once, packets the producer pushed and the frontend has taken off the
\* queue: `handled` is a subsequence of the consumed prefix of `pushed`.
C1_FifoDelivery ==
    /\ Len(data_queue) <= Len(pushed)
    /\ pushed = Consumed \o data_queue
    /\ IsSubseq(handled, Consumed)

\* Two different packets were delivered while a third still waits in the queue.
C1_Witness ==
    /\ Len(handled) >= 2
    /\ handled[1] # handled[2]
    /\ data_queue # <<>>

\* C2 as stated: however run() ends, handle_termination was called exactly
\* once, and never before the termination event was set.
C2_TerminationOnEveryExit ==
    /\ termination_calls <= 1
    /\ (termination_calls = 1 => termination_event)
    /\ (pc \in {"done", "raised"} => termination_calls = 1)

\* C2 as amended: run() leaves its loop only with the termination event set;
\* a normal return of run() has called handle_termination exactly once, never
\* twice and never before the event was set; when the queue read or
\* handle_incoming_packet raises, run() ends without calling it.
C2_TerminationOnReturn ==
    /\ termination_calls <= 1
    /\ (pc \in {"terminate", "done"} => termination_event)
    /\ (termination_calls = 1 => termination_event)
    /\ (pc = "done" => termination_calls = 1)
    /\ (pc \in {"run", "fetch", "handle", "terminate"} => termination_calls = 0)
    /\ (raised_in \in {"read_packet", "handle_incoming_packet"}
            => pc = "raised" /\ termination_calls = 0)
    /\ (raised_in = "handle_termination"
            => pc = "raised" /\ termination_calls = 1)

\* run() returned normally after delivering packets.
C2_Witness ==
    /\ pc = "done"
    /\ termination_calls = 1
    /\ Len(handled) >= 1

\* C3: the producer pushed n distinct packets with a true truth value, all of
\* them before the termination event was set; when run() has returned, it has
\* delivered exactly those packets, in order, and none is left in the queue.
C3_EndToEndDelivery ==
    (/\ pc = "done"
     /\ ~late_push
     /\ Distinct(pushed)
     /\ \A i \in 1 .. Len(pushed) : Truthy(pushed[i]))
        => (handled = pushed /\ data_queue = <<>>)

\* C4: once the termination event is set, run() eventually leaves its loop
\* and calls handle_termination, whatever the producer does.
C4_CooperativeShutdown ==
    termination_event ~> (termination_calls = 1)

\* ---- the backend's claims
Count(s, x) == Cardinality({i \in 1 .. Len(s) : s[i] = x})

RunEnded == bpc \in {"returned", "raised"}

\* C5: once run_capture was entered and run() has ended, ensure_capture_stopped
\* and close were each called exactly once, and a failure of run_capture is
\* the exception that leaves run().
C5_ScopedRelease ==
    (RunEnded /\ Count(device_calls, "run_capture") = 1)
        => /\ Count(device_calls, "ensure_capture_stopped") = 1
           /\ Count(device_calls, "close") = 1
           /\ (pending_exc = "run_capture"
                   => bpc = "raised" /\ propagated = "run_capture")

\* C6: however run() ends, close() has been called on the device.
C6_AlwaysClosed ==
    RunEnded => Count(device_calls, "close") = 1

\* The events with a payload, and the packets the sink builds from them.
RECURSIVE PacketsOf(_)
PacketsOf(evs) ==
    IF evs = <<>> THEN <<>>
    ELSE <<[raw |-> Head(evs).raw_packet, timestamp |-> Head(evs).timestamp]>>
             \o PacketsOf(Tail(evs))

NonEmptyEvent(ev) == ev.raw_packet # <<>>

\* C7: no emitted packet has an empty payload; the emitted packets are, in
\* order, packets of non-empty events, so never more than those; and when the
\* callback suppresses nothing, every non-empty event is emitted whatever
\* empty events surround it.
C7_NoEmptyPacketEmitted ==
    /\ \A i \in 1 .. Len(emitted) : emitted[i].raw # <<>>
    /\ Len(emitted) <= Len(SelectSeq(events, NonEmptyEvent))
    /\ IsSubseq(emitted, PacketsOf(SelectSeq(events, NonEmptyEvent)))
    /\ (suppress_packet_callback \in {"absent", "suppress_none"}
            => emitted = PacketsOf(SelectSeq(events, NonEmptyEvent)))

\* Empty and non-empty events were interleaved, and something was emitted.
C7_Witness ==
    /\ Len(events) >= 3
    /\ events[1].raw_packet # <<>>
    /\ events[2].raw_packet = <<>>
    /\ events[3].raw_packet # <<>>
    /\ Len(emitted) = 2

\* What the callback's answer for the packet of event ev amounts to: it is a
\* callable and its return value is true.
SuppressedByCallback(ev) ==
    \/ suppress_packet_callback = "suppress_all"
    \/ suppress_packet_callback = "suppress_odd" /\ ev.timestamp % 2 = 1

EmittedEvent(ev) == NonEmptyEvent(ev) /\ ~SuppressedByCallback(ev)

\* C8: the emitted packets are exactly the packets of the non-empty events
\* the callback does not suppress, in arrival order; a callback that is
\* absent, not callable or returns a false value suppresses nothing, and one
\* returning true for every packet leaves nothing emitted.
C8_SuppressionPredicate ==
    /\ emitted = PacketsOf(SelectSeq(events, EmittedEvent))
    /\ (suppress_packet_callback = "suppress_all" => emitted = <<>>)
    /\ (suppress_packet_callback \in {"absent", "not_callable", "suppress_none",
                                      "returns_none"}
            => emitted = PacketsOf(SelectSeq(events, NonEmptyEvent)))

\* A callback that suppresses some packets and lets others pass has acted.
C8_Witness ==
    /\ suppress_packet_callback = "suppress_odd"
    /\ Len(events) = 3
    /\ \A i \in 1 .. Len(events) : events[i].raw_packet # <<>>
    /\ Len(emitted) = 1
    /\ emitted[1].timestamp = 2

\* ---- the claims about argument parsing
\* The args that name the speed in the plain way: each "--speed" is followed
\* by a value, and no abbreviation is used.
PlainSpeedArgs(a) ==
    /\ \A i \in 1 .. Len(a) : a[i] # "--sp"
    /\ \A i \in 1 .. Len(a) :
           a[i] = "--speed" /\ (i = 1 \/ a[i - 1] # "--speed")
               => i < Len(a) /\ ~OptionLike(a[i + 1])

\* The speed string that args gives: the value of its last --speed, "high"
\* when it has none.
SpeedStringOf(a) ==
    LET at == {i \in 1 .. Len(a) - 1 :
                   a[i] = "--speed" /\ (i = 1 \/ a[i - 1] # "--speed")}
    IN  IF at = {} THEN "high"
        ELSE a[(CHOOSE i \in at : \A j \in at : j <= i) + 1]

\* C9: parse_arguments(args) of the OpenVizsla backend yields the speed that
\* args names when it is "high", "full" or "low" ("high" when --speed is
\* omitted), and for any other string it ends in a failure with a message and
\* a non-zero exit, with no device constructed.
C9_SpeedParsing ==
    (plugin = "openvizsla" /\ apc # "call" /\ PlainSpeedArgs(args))
        => LET string == SpeedStringOf(args)
           IN  /\ string = "high" => apc # "exited"
                                      /\ parsed_args = <<OVCaptureUSBSpeed_HIGH>>
               /\ string = "full" => apc # "exited"
                                      /\ parsed_args = <<OVCaptureUSBSpeed_FULL>>
               /\ string = "low"  => apc # "exited"
                                      /\ parsed_args = <<OVCaptureUSBSpeed_LOW>>
               /\ string \notin {"high", "full", "low"}
                      => /\ apc = "exited"
                         /\ exit_code # PyNone /\ exit_code # 0
                         /\ stderr_written
                         /\ ~device_constructed

\* C10: the result of parse_arguments(args) is determined by args alone: the
\* base implementation returns ((), args), and the OpenVizsla backend returns
\* what its parser makes of args, the leftover being the tokens of args other
\* than --speed and its value, in their order.
C10_ArgumentPassThrough ==
    apc # "call"
        => IF plugin = "base"
           THEN parsed_args = <<>> /\ leftover_args = args
           ELSE LET out == ParseOutcome(args)
                IN  /\ parsed_args = out.parsed_args
                    /\ leftover_args = out.leftover_args
                    /\ exit_code = out.exit_code
                    /\ (apc = "exited") = (out.apc = "exited")

\* ---- further claims about the frontend and the backend's run()
\* C14: a fetch_packet_from_analyzer that starts on an empty queue waits for
\* PACKET_READ_TIMEOUT before it returns None: whenever the fetch returns
\* None, the queue read has waited that long.
C14_BoundedWaitPoll ==
    [][(pc = "fetch" /\ pc' = "run" /\ packet' = PyNone)
           => waited' = PACKET_READ_TIMEOUT]_vars

\* C16: the termination event never goes from set to unset; a step of the
\* frontend (pc changes) or of the backend's run() (bpc changes) leaves the
\* event as it was, and a step of the frontend never adds to the data queue.
C16_EventOnlyObserved ==
    [][/\ (termination_event => termination_event')
       /\ (pc' # pc => /\ termination_event' = termination_event
                       /\ \/ data_queue' = data_queue
                          \/ /\ data_queue # <<>>
                             /\ data_queue' = Tail(data_queue))
       /\ (bpc' # bpc => /\ termination_event' = termination_event
                         /\ data_queue' = data_queue)]_vars

\* Both roles ran to their end with the event set.
C16_Witness ==
    /\ termination_event
    /\ pc = "done"
    /\ bpc = "returned"

\* C17: every packet that handle_communications has removed from the queue
\* has been passed to handle_incoming_packet, or is being passed to it.
C17_EveryRemovedPacketDispatched ==
    handled \o (IF pc = "handle" THEN <<packet>> ELSE <<>>) = Consumed

DeviceCallOrder == <<"open", "run_capture", "ensure_capture_stopped", "close">>

\* C19: the calls on the device are a prefix of open, run_capture,
\* ensure_capture_stopped, close (so each at most once, in that order, close
\* never before ensure_capture_stopped), and nothing follows an open() that
\* raised.
C19_DeviceCallOrder ==
    /\ Len(device_calls) <= Len(DeviceCallOrder)
    /\ device_calls = SubSeq(DeviceCallOrder, 1, Len(device_calls))
    /\ (propagated = "open" => device_calls = <<"open">>)
    /\ (bpc = "open" => device_calls = <<>>)

\* A capture that ran through all four calls.
C19_Witness ==
    /\ device_calls = DeviceCallOrder
    /\ bpc = "returned"

\* ---- the claims about the plugin registry
\* The strict ancestors of a class, walking up from it.
RECURSIVE Ancestors(_, _)
Ancestors(reg, c) ==
    IF c = RoleClass THEN {}
    ELSE {reg[c].parent} \cup Ancestors(reg, reg[c].parent)

\* The direct and transitive subclasses of cls whose UI_NAME attribute, own
\* or inherited, is a true value.
NamedDescendants(reg, cls) ==
    {d \in 1 .. Len(reg) : cls \in Ancestors(reg, d)
                              /\ NameIsTrue(UI_NAME(reg, d))}

\* The classes that were defined when the last query was made.
RegistryAtQuery == SubSeq(classes, 1, query.size)

\* C11: get_subclass_from_name(name) returns a named subclass of the class
\* it is called on whose UI_NAME is exactly name when there is one, and None
\* when there is none.
C11_LookupByName ==
    query.op = "lookup" =>
        LET same == {d \in NamedDescendants(RegistryAtQuery, query.cls) :
                         UI_NAME(RegistryAtQuery, d) = query.name}
        IN  IF same = {} THEN query.returned = PyNone
                         ELSE query.returned \in same

\* A lookup returned a class although another registered class has the same
\* name in another case.
C11_Witness ==
    /\ query.op = "lookup"
    /\ query.returned # PyNone
    /\ \E d \in NamedDescendants(RegistryAtQuery, query.cls) :
          /\ UI_NAME(RegistryAtQuery, d) # query.name
          /\ Lower(UI_NAME(RegistryAtQuery, d)) = Lower(query.name)

\* C12: when both generators of the role class were consumed to their end
\* with no class defined and no change of the system since the first was
\* created, the classes yielded as available and those yielded as
\* unavailable are disjoint, together they are all_named_subclasses(), and a
\* class is among the available ones exactly when its
\* reason_to_be_disabled() is None.
C12_BothConsumed ==
    /\ last.kind # "none"
    /\ Exhausted(gen)
    /\ ~gen.disturbed
    /\ gen.kind # last.kind

C12_Available == IF gen.kind = "available" THEN gen.yielded ELSE last.yielded

C12_Unavailable ==
    {p[1] : p \in IF gen.kind = "unavailable" THEN gen.pairs ELSE last.pairs}

C12_Partition ==
    C12_BothConsumed =>
        /\ C12_Available \cap C12_Unavailable = {}
        /\ C12_Available \cup C12_Unavailable
               = all_named_subclasses(classes, RoleClass)
        /\ \A c \in all_named_subclasses(classes, RoleClass) :
               c \in C12_Available <=> reason_to_be_disabled(c) = NoReason

\* Both parts of the partition are non-empty.
C12_Witness ==
    /\ C12_BothConsumed
    /\ C12_Available # {}
    /\ C12_Unavailable # {}

\* C13: a call of reason_to_be_disabled() or available_on_system() answers
\* by the system as it is when the call is made: a class whose availability
\* depends on the driver library is reported available exactly when the
\* library is installed at the time of the call.
C13_AvailabilityAtCallTime ==
    asked.op # "none" =>
        (asked.available <=>
            (reason_impl(classes, asked.cls) = "default" \/ asked.installed))

\* C15: no two classes in all_named_subclasses() of any class share a
\* UI_NAME.
C15_UniqueNames ==
    \A cls \in 0 .. Len(classes) :
        \A d, e \in all_named_subclasses(classes, cls) :
            UI_NAME(classes, d) = UI_NAME(classes, e) => d = e

C20_ReasonNeverNone ==
    \A p \in gen.pairs : p[2] # NoReason

=============================================================================
